---- MODULE Spec2Model ----
(***************************************************************************)
(* Model of the BillEase assistant (src/main.py), a Streamlit script.      *)
(*                                                                         *)
(* Streamlit re-executes the whole script once per user event (a file put  *)
(* into or taken out of the uploader, a text sent through the chat        *)
(* input).  What survives between two executions is st.session_state, the  *)
(* file held by the uploader widget, the st.cache_resource cache and the   *)
(* files on disk.  Every action below is one complete execution of the     *)
(* script for one event.                                                   *)
(*                                                                         *)
(* A text is modelled as a sequence of chunks: Python's string            *)
(* concatenation and f-string interpolation are \o, the empty string is    *)
(* << >>, and a text is truthy iff it is not << >>.                        *)
(***************************************************************************)
EXTENDS Integers, Sequences, FiniteSets, TLC

VARIABLES
    messages,        \* st.session_state.messages
    image_analyzed,  \* st.session_state.image_analyzed, "absent" while the key is missing
    uploaded_file,   \* the upload held by st.file_uploader, None when empty
    agent_cache,     \* TRUE once create_agent() returned and st.cache_resource kept it
    temp_files,      \* paths of the NamedTemporaryFile(delete=False) files on disk
    next_path,       \* the next fresh temp file name
    next_upload,     \* the next fresh upload identity
    runs,            \* number of script executions so far
    init_failed,     \* history: TRUE once an agent construction has failed
    vision_log,      \* history: upload analysed by each remote vision call, in order
    consumed,        \* history: uploads whose analysis went into an agent context
    released,        \* history: the paths given to os.unlink, in order
    run              \* history: trace of the last script execution

vars == <<messages, image_analyzed, uploaded_file, agent_cache, temp_files,
          next_path, next_upload, runs, init_failed, vision_log, consumed, released, run>>

(* ------------------------------ bounds --------------------------------- *)

MaxRuns == 3

(* ------------------------------ inputs --------------------------------- *)

None == 0

Queries == { <<"q1">>, <<"q2">> }

ErrMsgs == { <<"timeout">> }

AgentTexts == { <<"r1">> }

(* ------------------------- program constants --------------------------- *)

SENTINEL == <<"Please upload a clearer image">>

ANALYZED_PREFIX == <<"I've analyzed the uploaded image:\n\n">>

IMAGE_UPLOADED == <<"Image uploaded">>

ANALYZE_ERROR_PREFIX == <<"Error analyzing image: ">>

INIT_APOLOGY == <<"Sorry, I'm having trouble initializing. Please try again later.">>

RUN_ERROR_PREFIX == <<"Sorry, I encountered an error: ">>

CONTEXT_HEAD == <<"The user has uploaded an image. Image analysis: ">>

CONTEXT_MID == <<". User query: ">>

TEMPLATE_HEAD == <<"You are a helpful assistant who answers queries about Billease ... User query: ">>

TEMPLATE_TAIL == <<"\n">>

AnalysisTexts == { << >>, SENTINEL, <<"- red car">> }

(* outcome of one remote call: it returns text, or raises with message text *)
Outcomes(Texts) ==
    { [ok |-> TRUE, text |-> t] : t \in Texts } \cup
    { [ok |-> FALSE, text |-> m] : m \in ErrMsgs }

NoCall == [ok |-> TRUE, text |-> <<"unused">>]

(* ------------------------------ helpers -------------------------------- *)

Truthy(text) == text # << >>

(* analyze_image that lets the bare error message through *)
analyze_image_bare(outcome) == outcome.text

(* analyze_image: the remote result, or the error folded into a text *)
analyze_image(outcome) ==
    IF outcome.ok THEN outcome.text ELSE ANALYZE_ERROR_PREFIX \o outcome.text

(* what the upload block shows in the assistant bubble *)
analysis_markdown(image_analysis) ==
    IF image_analysis = SENTINEL THEN image_analysis
    ELSE ANALYZED_PREFIX \o image_analysis

(* an upload block that stores the decorated text whatever the analysis says *)
analysis_turn_decorated(image_analysis) ==
    [role |-> "assistant", content |-> ANALYZED_PREFIX \o image_analysis,
     image |-> None]

(* the turn the upload block stores for the analysis *)
analysis_turn(image_analysis) ==
    [role |-> "assistant", content |-> image_analysis, image |-> None]

upload_turn(file) ==
    [role |-> "user", content |-> IMAGE_UPLOADED, image |-> file]

(* the user turn of a text submission; the image key exists only with a file *)
user_message(prompt, file) ==
    IF file # None
    THEN [role |-> "user", content |-> prompt, image |-> file]
    ELSE [role |-> "user", content |-> prompt]

(* a reply stored under the user's role *)
response_turn_as_user(response) ==
    [role |-> "user", content |-> response, image |-> None]

(* the assistant turn of a text submission *)
response_turn(response) ==
    [role |-> "assistant", content |-> response, image |-> None]

(* a context that drops the query separator and repeats the analysis *)
image_context_repeated(image_analysis, prompt) ==
    CONTEXT_HEAD \o image_analysis \o image_analysis \o prompt

image_context(image_analysis, prompt) ==
    CONTEXT_HEAD \o image_analysis \o CONTEXT_MID \o prompt

agent_prompt(context) == TEMPLATE_HEAD \o context \o TEMPLATE_TAIL

(* value of the script local image_analyzed tested by the upload guard *)
local_image_analyzed == FALSE

(* an upload guard that forgets to look at the uploader *)
upload_guard_any(file) == TRUE

(* the upload guard: a held file and the local flag still unset *)
upload_guard(file) == file # None /\ ~local_image_analyzed

(* a store that puts the new turn in front *)
append_front(store, turn) == <<turn>> \o store

(* append to the conversation store *)
append(store, turn) == Append(store, turn)

(* an upload block that analyses without looking at the agent *)
analysis_enabled_any(image_path, agent) == image_path # None

(* the analysis call of the upload block is reached *)
analysis_enabled(image_path, agent) == image_path # None /\ agent

(* the fixed reply of a text submission when there is no agent *)
no_agent_response == INIT_APOLOGY

(* a reply that loses the exception's message *)
run_error_response_bare(text) == RUN_ERROR_PREFIX

(* the reply when agent.run raised with message text *)
run_error_response(text) == RUN_ERROR_PREFIX \o text

(* the text block reuses the analysis of the upload block *)
reuse_analysis(in_locals, image_analysis) == in_locals /\ Truthy(image_analysis)

(* a chat input that reports a submission on every execution *)
chat_submitted_always(prompt) == TRUE

(* the text block runs: st.chat_input returned a text *)
chat_submitted(prompt) == Truthy(prompt)

(* a script that deletes the temp file before the text block looks at it *)
file_ops_unlink_first(path, created, analysed1, analysed2, unlinked) ==
    (IF created THEN << [op |-> "create", path |-> path] >> ELSE << >>) \o
    (IF analysed1 THEN << [op |-> "analyze", path |-> path] >> ELSE << >>) \o
    (IF unlinked THEN << [op |-> "unlink", path |-> path] >> ELSE << >>) \o
    (IF analysed2 THEN << [op |-> "analyze", path |-> path] >> ELSE << >>)

(* what one execution does with its temp file, in statement order *)
file_ops(path, created, analysed1, analysed2, unlinked) ==
    (IF created THEN << [op |-> "create", path |-> path] >> ELSE << >>) \o
    (IF analysed1 THEN << [op |-> "analyze", path |-> path] >> ELSE << >>) \o
    (IF analysed2 THEN << [op |-> "analyze", path |-> path] >> ELSE << >>) \o
    (IF unlinked THEN << [op |-> "unlink", path |-> path] >> ELSE << >>)

(* the closing lines of the script: create the session flag when missing *)
session_flag(flag) == IF flag = "absent" THEN "False" ELSE flag

(* ------------------------- one script execution ------------------------ *)
(* file: the uploader's content during this execution; prompt: the text    *)
(* returned by st.chat_input, << >> when nothing was submitted; build_ok:  *)
(* whether create_agent() succeeds if it has to run; a1, a2: outcomes of   *)
(* the remote vision calls; r: outcome of agent.run.                       *)
Script(file, prompt, build_ok, a1, a2, r) ==
    LET agent       == agent_cache \/ build_ok
        taken       == upload_guard(file)
        image_path  == IF taken THEN next_path ELSE None
        files1      == IF taken THEN temp_files \cup {next_path} ELSE temp_files
        analysed    == taken /\ analysis_enabled(image_path, agent)
        analysis1   == analyze_image(a1)
        messages1   == IF analysed
                       THEN append(append(messages, upload_turn(file)),
                                   analysis_turn(analysis1))
                       ELSE messages
        flag1       == IF analysed THEN "True" ELSE image_analyzed
        vision1     == IF analysed
                       THEN << [upload |-> file, path |-> image_path,
                                outcome |-> a1, result |-> analysis1] >>
                       ELSE << >>
        shown       == IF analysed THEN << analysis_markdown(analysis1) >> ELSE << >>
        submitted   == chat_submitted(prompt)
        calls_agent == submitted /\ agent
        with_image  == calls_agent /\ image_path # None
        again       == with_image /\ ~reuse_analysis(analysed, analysis1)
        analysis2   == IF again THEN analyze_image(a2) ELSE analysis1
        vision2     == IF again
                       THEN << [upload |-> file, path |-> image_path,
                                outcome |-> a2, result |-> analysis2] >>
                       ELSE << >>
        context     == IF with_image THEN image_context(analysis2, prompt) ELSE prompt
        response    == IF ~agent THEN no_agent_response
                       ELSE IF r.ok THEN r.text
                       ELSE run_error_response(r.text)
        unlinked    == IF submitted /\ image_path # None /\ image_path \in files1
                       THEN {image_path} ELSE {}
        messages2   == IF submitted
                       THEN append(append(messages1, user_message(prompt, file)),
                                   response_turn(response))
                       ELSE messages1
    IN  /\ runs < MaxRuns
        /\ build_ok \in (IF agent_cache THEN {TRUE} ELSE BOOLEAN)
        /\ a1 \in (IF analysed THEN Outcomes(AnalysisTexts) ELSE {NoCall})
        /\ a2 \in (IF again THEN Outcomes(AnalysisTexts) ELSE {NoCall})
        /\ r \in (IF calls_agent THEN Outcomes(AgentTexts) ELSE {NoCall})
        /\ messages' = messages2
        /\ image_analyzed' = session_flag(flag1)
        /\ uploaded_file' = file
        /\ agent_cache' = agent
        /\ temp_files' = files1 \ unlinked
        /\ next_path' = IF taken THEN next_path + 1 ELSE next_path
        /\ runs' = runs + 1
        /\ init_failed' = (init_failed \/ ~agent)
        /\ vision_log' = vision_log \o vision1 \o vision2
        /\ consumed' = IF with_image THEN consumed \cup {file} ELSE consumed
        /\ released' = IF unlinked = {} THEN released ELSE Append(released, image_path)
        /\ run' = [base |-> Len(messages), file |-> file, prompt |-> prompt,
                   agent |-> agent, image_path |-> image_path,
                   analysed |-> analysed,
                   stale |-> consumed # {} /\ file \in consumed \cup {None},
                   vision |-> vision1 \o vision2, shown |-> shown,
                   agent_calls |-> IF calls_agent
                                   THEN << [context |-> context,
                                            prompt |-> agent_prompt(context),
                                            outcome |-> r] >>
                                   ELSE << >>,
                   unlinked |-> unlinked,
                   ops |-> file_ops(image_path, taken, analysed, again,
                                    unlinked # {})]

Inputs == BOOLEAN \X (Outcomes(AnalysisTexts) \cup {NoCall})
                  \X (Outcomes(AnalysisTexts) \cup {NoCall})
                  \X (Outcomes(AgentTexts) \cup {NoCall})

(* ------------------------------ the events ----------------------------- *)

(* the user puts a file into the uploader *)
UploadEvent ==
    \E i \in Inputs :
        /\ Script(next_upload, << >>, i[1], i[2], i[3], i[4])
        /\ next_upload' = next_upload + 1

(* the user takes the file out of the uploader *)
ClearUpload ==
    \E i \in Inputs :
        /\ uploaded_file # None
        /\ Script(None, << >>, i[1], i[2], i[3], i[4])
        /\ UNCHANGED next_upload

(* the user sends a text through the chat input; the uploader keeps its file *)
TextSubmit ==
    \E q \in Queries : \E i \in Inputs :
        /\ Script(uploaded_file, q, i[1], i[2], i[3], i[4])
        /\ UNCHANGED next_upload

Init ==
    /\ messages = << >>
    /\ image_analyzed = "absent"
    /\ uploaded_file = None
    /\ agent_cache = FALSE
    /\ temp_files = {}
    /\ next_path = 1
    /\ next_upload = 1
    /\ runs = 0
    /\ init_failed = FALSE
    /\ vision_log = << >>
    /\ consumed = {}
    /\ released = << >>
    /\ run = [base |-> 0, file |-> None, prompt |-> << >>, agent |-> FALSE,
              image_path |-> None, analysed |-> FALSE, stale |-> FALSE,
              vision |-> << >>, shown |-> << >>,
              agent_calls |-> << >>, unlinked |-> {}, ops |-> << >>]

Next == UploadEvent \/ ClearUpload \/ TextSubmit

Spec == Init /\ [][Next]_vars

TypeOK ==
    /\ image_analyzed \in {"absent", "False", "True"}
    /\ uploaded_file \in 0..MaxRuns
    /\ runs \in 0..MaxRuns
    /\ Len(messages) <= 4 * MaxRuns

(* ------------------------------ properties ----------------------------- *)

Last(seq) == seq[Len(seq)]

(* number of places where the chunks of sub occur in text *)
Occurrences(sub, text) ==
    Cardinality({ i \in 1..(Len(text) - Len(sub) + 1) :
                    SubSeq(text, i, i + Len(sub) - 1) = sub })

(* C1: when the analysis of the upload block returns a text T other than   *)
(* the sentinel, the assistant turn stored for the upload has the text     *)
(* "I've analyzed the uploaded image:\n\n" + T.                            *)
C1_StoredAnalysisDecorated ==
    (run.analysed /\ run.vision[1].result # SENTINEL)
        => messages[run.base + 2] =
               [role |-> "assistant",
                content |-> ANALYZED_PREFIX \o run.vision[1].result,
                image |-> None]

(* C2: when the analysis of the upload block returns exactly the sentinel, *)
(* the assistant turn stored for the upload has the sentinel as its text,  *)
(* with nothing before or after it.                                        *)
C2_SentinelVerbatim ==
    (run.analysed /\ run.vision[1].result = SENTINEL)
        => /\ Len(messages) >= run.base + 2
           /\ messages[run.base + 2].role = "assistant"
           /\ messages[run.base + 2].content = SENTINEL

C2_Witness ==
    /\ run.analysed
    /\ run.vision[1].result = SENTINEL
    /\ run.shown = << SENTINEL >>

(* C3: once an event has been processed, the temp image created during it  *)
(* is no longer on disk, also when the event was an upload without text.   *)
C3_NoTempLeak ==
    run.image_path # None => run.image_path \notin temp_files

(* C4: no upload is analysed more than once over the session, and no       *)
(* upload gets a second "Image uploaded" turn, whatever events follow      *)
(* while the uploader still holds it.                                      *)
C4_AnalysedOnce ==
    \A u \in 1..(next_upload - 1) :
        /\ Cardinality({ i \in 1..Len(vision_log) : vision_log[i].upload = u }) <= 1
        /\ Cardinality({ i \in 1..Len(messages) :
                           messages[i] = upload_turn(u) }) <= 1

(* C5: a text submission made after an earlier submission has consumed the *)
(* analysis of the upload, with no new upload since, sends the agent the   *)
(* user's text unchanged as context.                                       *)
C5_NoStaleAnalysis ==
    (run.stale /\ run.agent_calls # << >>)
        => run.agent_calls[1].context = run.prompt

(* C6: a text submission handled with an agent sends, when an image is     *)
(* present, the context "The user has uploaded an image. Image analysis: " *)
(* + A + ". User query: " + Q, A being the latest analysis result of the   *)
(* execution, so that A is in the context once; without an image the       *)
(* context is Q; in both cases the context is what the agent's prompt      *)
(* carries.                                                                *)
C6_ContextComposition ==
    run.agent_calls # << >> =>
        LET call == run.agent_calls[1]
            Q    == run.prompt
        IN  /\ call.prompt = TEMPLATE_HEAD \o call.context \o TEMPLATE_TAIL
            /\ IF run.image_path # None
               THEN /\ run.vision # << >>
                    /\ LET A == Last(run.vision).result
                       IN  /\ call.context =
                                 CONTEXT_HEAD \o A \o CONTEXT_MID \o Q
                           /\ A # << >> => Occurrences(A, call.context) = 1
               ELSE call.context = Q

C6_Witness ==
    /\ run.agent_calls # << >>
    /\ run.image_path # None
    /\ Last(run.vision).result = <<"- red car">>
    /\ run.agent_calls[1].context =
           CONTEXT_HEAD \o <<"- red car">> \o CONTEXT_MID \o run.prompt

(* C7: the conversation store only grows at its end: the store before an   *)
(* event is a prefix of the store after it.                                *)
C7_AppendOnly ==
    [][/\ Len(messages') >= Len(messages)
       /\ SubSeq(messages', 1, Len(messages)) = messages]_vars

C7_Witness ==
    /\ Len(messages) >= 6
    /\ runs >= 2

C9_RunErrorReported ==
    (run.agent_calls # << >> /\ ~run.agent_calls[1].outcome.ok)
        => /\ Last(messages) =
                 response_turn(RUN_ERROR_PREFIX \o run.agent_calls[1].outcome.text)
           /\ messages[Len(messages) - 1].role = "user"
           /\ messages[Len(messages) - 1].content = run.prompt
           /\ Len(messages) - 1 > run.base
           /\ runs < MaxRuns => ENABLED TextSubmit

C9_Witness ==
    /\ run.agent_calls # << >>
    /\ ~run.agent_calls[1].outcome.ok
    /\ Last(messages).content = RUN_ERROR_PREFIX \o <<"timeout">>

(* C10: when the vision call of the upload block fails with message m, the *)
(* analysis is the text "Error analyzing image: " + m, the "Image          *)
(* uploaded" turn and an assistant turn with that text are stored, and     *)
(* further events can still be processed.                                  *)
C10_VisionErrorReported ==
    (run.analysed /\ ~run.vision[1].outcome.ok)
        => LET m == run.vision[1].outcome.text
           IN  /\ run.vision[1].result = ANALYZE_ERROR_PREFIX \o m
               /\ Len(messages) >= run.base + 2
               /\ messages[run.base + 1] = upload_turn(run.file)
               /\ messages[run.base + 2].role = "assistant"
               /\ messages[run.base + 2].content = ANALYZE_ERROR_PREFIX \o m
               /\ runs < MaxRuns => ENABLED UploadEvent

C10_Witness ==
    /\ run.analysed
    /\ ~run.vision[1].outcome.ok
    /\ messages[run.base + 2].content = ANALYZE_ERROR_PREFIX \o <<"timeout">>

(* the turns stored by the last execution *)
Stored == SubSeq(messages, run.base + 1, Len(messages))

(* C11: an execution without submitted text never calls agent.run, and     *)
(* stores nothing, or the "Image uploaded" turn followed by the analysis   *)
(* turn.                                                                   *)
C11_UploadOnlyNoAgentCall ==
    ~Truthy(run.prompt) =>
        /\ run.agent_calls = << >>
        /\ \/ Stored = << >>
           \/ /\ run.analysed
              /\ Stored = << upload_turn(run.file),
                             analysis_turn(run.vision[1].result) >>

C11_Witness ==
    /\ ~Truthy(run.prompt)
    /\ run.agent
    /\ run.analysed
    /\ Len(Stored) = 2

(* C12: a text submission handled while the uploader is empty makes no     *)
(* vision call, and the context given to the agent is the user's text.     *)
C12_TextOnlyNoVision ==
    (Truthy(run.prompt) /\ run.file = None) =>
        /\ run.vision = << >>
        /\ run.image_path = None
        /\ run.agent_calls # << >> => run.agent_calls[1].context = run.prompt

C12_Witness ==
    /\ Truthy(run.prompt)
    /\ run.file = None
    /\ run.agent_calls # << >>
    /\ vision_log # << >>

(* C13: every execution that holds an upload analyses it and stores the    *)
(* "Image uploaded" turn with the upload attached, followed by an          *)
(* assistant turn with the analysis, whether or not the agent exists.      *)
C13_UploadAlwaysAnalysed ==
    run.file # None =>
        /\ run.vision # << >>
        /\ Len(messages) >= run.base + 2
        /\ messages[run.base + 1] = upload_turn(run.file)
        /\ messages[run.base + 2].role = "assistant"
        /\ messages[run.base + 2].content = run.vision[1].result

(* C14: no path is given to os.unlink twice, only the temp file of the     *)
(* execution is unlinked, and within an execution nothing uses the temp    *)
(* file after its unlink.                                                  *)
C14_NoDoubleRelease ==
    /\ \A i, j \in 1..Len(released) : released[i] = released[j] => i = j
    /\ run.unlinked \subseteq ({run.image_path} \ {None})
    /\ \A i \in 1..Len(run.ops) :
          run.ops[i].op = "unlink" =>
              /\ \A j \in (i + 1)..Len(run.ops) : run.ops[j].path # run.ops[i].path
              /\ \E j \in 1..(i - 1) :
                    run.ops[j] = [op |-> "create", path |-> run.ops[i].path]

C14_Witness ==
    /\ Len(released) >= 2
    /\ run.unlinked # {}
    /\ Len(run.vision) = 2

(* C15: an execution with submitted text and a held upload makes at most   *)
(* one vision call, whatever text the analysis returns.                    *)
C15_OneAnalysisPerSubmit ==
    (Truthy(run.prompt) /\ run.file # None) => Len(run.vision) <= 1

(* C16: after every execution the store has even length and its roles      *)
(* alternate user, assistant, starting with user.                          *)
C16_TurnsPaired ==
    /\ Len(messages) % 2 = 0
    /\ \A i \in 1..Len(messages) :
          messages[i].role = IF i % 2 = 1 THEN "user" ELSE "assistant"

C16_Witness ==
    /\ Len(messages) >= 6
    /\ init_failed
    /\ run.analysed
    /\ ~run.vision[1].outcome.ok
    /\ run.agent_calls # << >>
    /\ ~run.agent_calls[1].outcome.ok
    /\ \E i \in 1..Len(messages) : messages[i].content = INIT_APOLOGY

====
